---- MODULE Spec2Model ----
(***************************************************************************)
(* A model of the sudoku solver of sudoku.js together with the part of     *)
(* controller.js that owns the board and calls solve.                      *)
(*                                                                         *)
(* JavaScript objects are modelled with two heaps: `sq` holds the Square   *)
(* objects and `arr` the domain arrays.  A board (the 2D array `squares`)  *)
(* is a function from row and column to a Square reference; the outer      *)
(* arrays are never written after copySquares built them.  Objects no      *)
(* variable can reach any more are dropped from the heaps after every      *)
(* step; references are never used twice.                                  *)
(***************************************************************************)
EXTENDS Integers, Sequences, FiniteSets, TLC

VARIABLES
    pc,          \* where the click handler is: "idle", "init", "search", "done"
    fields,      \* the text of the 81 <input> elements
    message,     \* innerHTML of the element 'failure'
    squares,     \* controller.js: the global board handed to solve
    sq,          \* heap of Square objects
    arr,         \* heap of domain arrays
    nextRef,     \* the reference the next new object takes
    newSquares,  \* solve's local board while updateAllDomains runs
    ij,          \* loop indices i, j of updateAllDomains
    stack,       \* the activation records of backtrack, innermost last
    result,      \* the SudokuCSP a backtrack call has just returned
    initial,     \* history: the grid of values read from the fields at the click
    ud           \* history: the last call of updateDomains

vars == <<pc, fields, message, squares, sq, arr, nextRef, newSquares, ij, stack,
          result, initial, ud>>

----------------------------------------------------------------------------
(* Sizes and the inputs the model draws from *)

N == 9
Idx == 0 .. (N - 1)

\* The most fields left blank in a grid that is otherwise the base grid.
MaxEmpty == 5

\* The most fields left blank in a grid with a field typed differently.
MaxEmptyTyped == 3

\* A correctly solved grid; the grids typed into the fields differ from
\* it in a few cells.
Base ==
    << <<5,3,4,6,7,8,9,1,2>>,
       <<6,7,2,1,9,5,3,4,8>>,
       <<1,9,8,3,4,2,5,6,7>>,
       <<8,5,9,7,6,1,4,2,3>>,
       <<4,2,6,8,5,3,7,9,1>>,
       <<7,1,3,9,2,4,8,5,6>>,
       <<9,6,1,5,3,7,2,8,4>>,
       <<2,8,7,4,1,9,6,3,5>>,
       <<3,4,5,2,8,6,1,7,9>> >>

\* Blanking all of these makes the search descend into a branch that
\* fails below its first level.
DeepCells == { <<3,0>>, <<3,3>>, <<4,3>>, <<5,0>>, <<5,6>> }

\* Blanking the first four leaves two valid completions.
RectCells == { <<6,3>>, <<6,8>>, <<7,3>>, <<7,8>>, <<8,8>> }

ZeroSets == (SUBSET DeepCells) \cup (SUBSET RectCells)

NoOverride == [row |-> -1, col |-> -1, text |-> ""]

\* One field typed differently from the base grid.
Overrides ==
    { [row |-> 6, col |-> 3, text |-> "4"],
      [row |-> 0, col |-> 1, text |-> "5"],
      [row |-> 7, col |-> 6, text |-> "5"],
      [row |-> 8, col |-> 7, text |-> "0"] }

Digits == << "0", "1", "2", "3", "4", "5", "6", "7", "8", "9" >>

toString(n) == Digits[n + 1]

parseInt(s) == (CHOOSE k \in 1 .. 10 : Digits[k] = s) - 1

InputGrid(Z, o) ==
    [i \in Idx |-> [j \in Idx |->
        IF o.row = i /\ o.col = j THEN o.text
        ELSE IF <<i, j>> \in Z THEN ""
        ELSE toString(Base[i + 1][j + 1])]]

Inputs ==
    { InputGrid(Z, NoOverride) : Z \in { Y \in ZeroSets : Cardinality(Y) <= MaxEmpty } }
    \cup { InputGrid(Z, o) : Z \in { Y \in ZeroSets : Cardinality(Y) <= MaxEmptyTyped },
                             o \in Overrides }

----------------------------------------------------------------------------
(* Arrays *)

\* Array.prototype.indexOf: the 0-based index of the first v, or -1
indexOf(s, v) ==
    IF \E k \in 1 .. Len(s) : s[k] = v
    THEN (CHOOSE k \in 1 .. Len(s) : s[k] = v /\ \A m \in 1 .. (k - 1) : s[m] # v) - 1
    ELSE -1

\* Array.prototype.splice(index, 1)
splice(s, index) ==
    [k \in 1 .. (Len(s) - 1) |-> IF k <= index THEN s[k] ELSE s[k + 1]]

----------------------------------------------------------------------------
(* The heap *)

Heap == [sq |-> sq, arr |-> arr, next |-> nextRef]

Refs(board) == { board[i][j] : i \in Idx, j \in Idx }

\* What is left of the heap H when only the boards in `roots` are reachable.
Collect(H, roots) ==
    LET liveSq == UNION { Refs(b) : b \in roots }
        liveArr == { H.sq[s].domain : s \in liveSq }
    IN  [sq |-> [s \in liveSq |-> H.sq[s]], arr |-> [a \in liveArr |-> H.arr[a]],
         next |-> H.next]

\* The values and domains of a board, without the references.
Content(H, board) ==
    [i \in Idx |-> [j \in Idx |->
        [value |-> H.sq[board[i][j]].value,
         domain |-> H.arr[H.sq[board[i][j]].domain]]]]

Values(H, board) == [i \in Idx |-> [j \in Idx |-> H.sq[board[i][j]].value]]

----------------------------------------------------------------------------
(* sudoku.js *)

\* function Square(row, col, value, domain)
Square(row, col, value, domain) ==
    [row |-> row, col |-> col, value |-> value, domain |-> domain]

\* A faulty copySquares: the new squares share the domain arrays of the
\* source (s.domain in the place of s.domain.slice(0)).
copySquaresShared(H, board) ==
    LET base == H.next
        new == base .. (base + N * N - 1)
        src(r) == H.sq[board[(r - base) \div N][(r - base) % N]]
    IN  [squares |-> [i \in Idx |-> [j \in Idx |-> base + i * N + j]],
         heap |-> [sq |-> [r \in new |->
                             Square(src(r).row, src(r).col, src(r).value, src(r).domain)]
                          @@ H.sq,
                   arr |-> H.arr,
                   next |-> base + N * N]]

\* copySquares: new Square objects, each with a slice of the source's domain.
\* The copy of the square (i, j) and its array take the reference
\* H.next + i * N + j.
copySquares(H, board) ==
    LET base == H.next
        new == base .. (base + N * N - 1)
        src(r) == H.sq[board[(r - base) \div N][(r - base) % N]]
    IN  [squares |-> [i \in Idx |-> [j \in Idx |-> base + i * N + j]],
         heap |-> [sq |-> [r \in new |-> Square(src(r).row, src(r).col, src(r).value, r)]
                          @@ H.sq,
                   arr |-> [r \in new |-> H.arr[src(r).domain]] @@ H.arr,
                   next |-> base + N * N]]

\* isFull
isFull(H, board) ==
    ~ \E i \in Idx, j \in Idx : H.sq[board[i][j]].value = 0

\* A faulty getEmptySquare: the test of the value is inverted.
getFilledSquare(H, board) ==
    LET k == CHOOSE k \in 0 .. (N * N - 1) :
                /\ H.sq[board[k \div N][k % N]].value # 0
                /\ \A m \in 0 .. (k - 1) : H.sq[board[m \div N][m % N]].value = 0
    IN  board[k \div N][k % N]

\* getEmptySquare: the first square in row-major order whose value is 0.
\* backtrack calls it only on a board that is not full; -1 stands for the
\* Square(-1, -1, -1, []) of the other case.
getEmptySquare(H, board) ==
    IF isFull(H, board) THEN -1
    ELSE LET k == CHOOSE k \in 0 .. (N * N - 1) :
                    /\ H.sq[board[k \div N][k % N]].value = 0
                    /\ \A m \in 0 .. (k - 1) : H.sq[board[m \div N][m % N]].value # 0
         IN  board[k \div N][k % N]

\* A faulty box: the test for the rows (columns) 6 to 8 is missing.
BoxOriginTwoBands(x) ==
    IF x >= 3 /\ x <= 5 THEN 3
    ELSE 0

\* lines 213-221: the first row (column) of the 3x3 box of a row (column)
BoxOrigin(x) ==
    IF x >= 3 /\ x <= 5 THEN 3
    ELSE IF x >= 6 /\ x <= 8 THEN 6
    ELSE 0

\* F(x), with x evaluated once
Then(x, F(_)) == CHOOSE y \in { F(v) : v \in {x} } : TRUE

\* A faulty guard: the changed square is pruned like its peers.
PruneGuardAlways(index, other) == index # -1

\* lines 192, 200 and 226: whether the value is spliced out; `other` says
\* that the square is not the changed one
PruneGuard(index, other) == index # -1 /\ other

\* lines 191-195, 199-202 and 225-228: the arrays after the value is taken
\* out of the array d
Prune(A, d, newValue, other) ==
    Then(indexOf(A[d], newValue),
         LAMBDA index : IF PruneGuard(index, other)
                        THEN [A EXCEPT ![d] = splice(@, index)]
                        ELSE A)

\* A faulty test: the column's square is not looked at.
RowEmptyOnly(A, dRow, dCol) == Len(A[dRow]) = 0

\* line 206
RowColEmpty(A, dRow, dCol) == Len(A[dRow]) = 0 \/ Len(A[dCol]) = 0

\* lines 190-208: round i of the loop over the row and the column; ret is
\* FALSE when the round returns false
RowColRound(H, board, row, col, newValue, i) ==
    LET dRow == H.sq[board[row][i]].domain
        dCol == H.sq[board[i][col]].domain
    IN  Then(Prune(H.arr, dRow, newValue, i # col), LAMBDA A1 :
        Then(Prune(A1, dCol, newValue, i # row), LAMBDA A2 :
            [heap |-> [H EXCEPT !.arr = A2], ret |-> ~RowColEmpty(A2, dRow, dCol)]))

\* lines 188-209: the loop over the row and the column, from index i on
RECURSIVE RowColLoop(_, _, _, _, _, _)
RowColLoop(H, board, row, col, newValue, i) ==
    IF i >= N THEN [heap |-> H, ret |-> TRUE]
    ELSE Then(RowColRound(H, board, row, col, newValue, i), LAMBDA s :
            IF ~s.ret THEN s
            ELSE RowColLoop(s.heap, board, row, col, newValue, i + 1))

\* lines 225-232: the round of the loop over the 3x3 box at the square (i, j)
BoxRound(H, board, row, col, newValue, i, j) ==
    LET d == H.sq[board[i][j]].domain
    IN  Then(Prune(H.arr, d, newValue, ~(i = row /\ j = col)), LAMBDA A1 :
            [heap |-> [H EXCEPT !.arr = A1], ret |-> Len(A1[d]) # 0])

\* lines 223-234: the loop over the 3x3 box; k counts its cells row by row
RECURSIVE BoxLoop(_, _, _, _, _, _)
BoxLoop(H, board, row, col, newValue, k) ==
    IF k >= 9 THEN [heap |-> H, ret |-> TRUE]
    ELSE Then(BoxRound(H, board, row, col, newValue,
                       BoxOrigin(row) + (k \div 3), BoxOrigin(col) + (k % 3)),
              LAMBDA s :
                IF ~s.ret THEN s
                ELSE BoxLoop(s.heap, board, row, col, newValue, k + 1))

\* lines 183-184: the changed square gets the new array [newValue]
Collapse(H, board, row, col, newValue) ==
    [sq |-> [H.sq EXCEPT ![board[row][col]].domain = H.next],
     arr |-> (H.next :> <<newValue>>) @@ H.arr,
     next |-> H.next + 1]

\* updateDomains(squares, row, col): the heap it leaves and what it returns
updateDomains(H, board, row, col) ==
    Then(H.sq[board[row][col]].value, LAMBDA newValue :
        IF newValue = 0 THEN [heap |-> H, ret |-> TRUE]
        ELSE Then(Collapse(H, board, row, col, newValue), LAMBDA H1 :
             Then(RowColLoop(H1, board, row, col, newValue, 0), LAMBDA rc :
                IF ~rc.ret THEN rc
                ELSE BoxLoop(rc.heap, board, row, col, newValue, 0))))

\* The record kept of a call of updateDomains.
Call(H, board, row, col, r) ==
    << [row |-> row, col |-> col,
        pre |-> Content(H, board), post |-> Content(r.heap, board),
        ret |-> r.ret] >>

\* A faulty order: the values of the domain are tried from the last one.
CandidateDescending(domain, i) == domain[Len(domain) - i]

\* line 77: the value to check
Candidate(domain, i) == domain[i + 1]

\* A faulty trial: the value is not put into the square.
AssignNothing(H, board, row, col, value) == H

\* line 81: newSquares[square.row][square.col].value = value
Assign(H, board, row, col, value) ==
    [H EXCEPT !.sq[board[row][col]].value = value]

----------------------------------------------------------------------------
(* controller.js *)

GlobalBoard == [i \in Idx |-> [j \in Idx |-> i * N + j]]

\* lines 23-34
Init ==
    /\ pc = "idle"
    /\ fields = [i \in Idx |-> [j \in Idx |-> ""]]
    /\ message = ""
    /\ squares = GlobalBoard
    /\ sq = [r \in Refs(GlobalBoard) |-> Square(r \div N, r % N, 0, r)]
    /\ arr = [r \in Refs(GlobalBoard) |-> <<1, 2, 3, 4, 5, 6, 7, 8, 9>>]
    /\ nextRef = N * N
    /\ newSquares = <<>>
    /\ ij = <<0, 0>>
    /\ stack = <<>>
    /\ result = <<>>
    /\ initial = <<>>
    /\ ud = <<>>

\* lines 54-66: the value of a field
FieldValue(text) == IF text = "" THEN 0 ELSE parseInt(text)

\* The boards the program can still read: the global one, solve's local
\* one, the board of every activation of backtrack and the returned one.
\* The trial board newSquares of an activation is not among them once the
\* SudokuCSP for the recursive call has copied it: the next round of the
\* loop assigns the variable before anything reads it.
Roots(ns, st, res) ==
    {squares} \cup { ns[k] : k \in DOMAIN ns }
              \cup { st[k].sudoku.squares : k \in DOMAIN st }
              \cup { res[k].squares : k \in DOMAIN res }

\* lines 54-66 of controller.js: the values of the fields go into the
\* squares of the global board
ReadFields(H, g) ==
    [H EXCEPT !.sq = [r \in DOMAIN H.sq |->
                         IF r \in Refs(squares)
                         THEN [H.sq[r] EXCEPT !.value =
                                  FieldValue(g[H.sq[r].row][H.sq[r].col])]
                         ELSE H.sq[r]]]

\* The user fills the fields in and presses the button: solveButtonClick
\* up to the call of solve, then solve up to the call of updateAllDomains
\* (line 41).
SolveButtonClick ==
    /\ pc = "idle"
    /\ \E g \in Inputs :
       \E H1 \in {ReadFields(Heap, g)} :
       \E cp \in {copySquares(H1, squares)} :
       \E H2 \in {Collect(cp.heap, Roots(<< cp.squares >>, <<>>, <<>>))} :
        /\ fields' = g
        /\ initial' = << Values(H1, squares) >>
        /\ newSquares' = << cp.squares >>
        /\ sq' = H2.sq
        /\ arr' = H2.arr
        /\ nextRef' = H2.next
    /\ pc' = "init"
    /\ ij' = <<0, 0>>
    /\ ud' = <<>>
    /\ UNCHANGED <<message, squares, stack, result>>

\* new SudokuCSP(squares, failure): the object and the heap with its copy
SudokuCSP(H, board, failure) ==
    Then(copySquares(H, board), LAMBDA cp :
        [csp |-> [squares |-> cp.squares, failure |-> failure], heap |-> cp.heap])

\* The activation record of a call backtrack(sudoku), before its first line.
Frame(sudoku) == [sudoku |-> sudoku, square |-> -1, i |-> 0, phase |-> "enter"]

\* One round of the loops of updateAllDomains (lines 249-256), with more
\* squares to come: the call of updateDomains returned true.
UpdateAllStep ==
    /\ pc = "init"
    /\ ij # <<N - 1, N - 1>>
    /\ \E r \in {updateDomains(Heap, newSquares[1], ij[1], ij[2])} :
       \E H \in {Collect(r.heap, Roots(newSquares, <<>>, <<>>))} :
        /\ r.ret
        /\ ud' = Call(Heap, newSquares[1], ij[1], ij[2], r)
        /\ sq' = H.sq
        /\ arr' = H.arr
        /\ nextRef' = H.next
    /\ ij' = IF ij[2] = N - 1 THEN <<ij[1] + 1, 0>> ELSE <<ij[1], ij[2] + 1>>
    /\ UNCHANGED <<pc, fields, message, squares, newSquares, stack, result, initial>>

\* The last round of updateAllDomains: the call of updateDomains returned
\* false, or it was the call for the last square.  updateAllDomains
\* returns, and solve, which does not look at what it returned, calls
\* backtrack on a new SudokuCSP (line 46).
UpdateAllReturn ==
    /\ pc = "init"
    /\ \E r \in {updateDomains(Heap, newSquares[1], ij[1], ij[2])} :
       \E c \in {SudokuCSP(r.heap, newSquares[1], FALSE)} :
       \E H \in {Collect(c.heap, Roots(<<>>, << Frame(c.csp) >>, <<>>))} :
        /\ ~r.ret \/ ij = <<N - 1, N - 1>>
        /\ ud' = Call(Heap, newSquares[1], ij[1], ij[2], r)
        /\ stack' = << Frame(c.csp) >>
        /\ sq' = H.sq
        /\ arr' = H.arr
        /\ nextRef' = H.next
    /\ pc' = "search"
    /\ newSquares' = <<>>
    /\ ij' = <<0, 0>>
    /\ UNCHANGED <<fields, message, squares, result, initial>>

Top == stack[Len(stack)]

Pop == SubSeq(stack, 1, Len(stack) - 1)

\* lines 60-62: the board is full, the call returns its argument
BacktrackFull ==
    /\ pc = "search"
    /\ stack # <<>>
    /\ Top.phase = "enter"
    /\ isFull(Heap, Top.sudoku.squares)
    /\ result' = << Top.sudoku >>
    /\ stack' = Pop
    /\ UNCHANGED <<pc, fields, message, squares, sq, arr, nextRef, newSquares, ij,
                   initial, ud>>

\* line 66: the square to fill in
BacktrackChoose ==
    /\ pc = "search"
    /\ stack # <<>>
    /\ Top.phase = "enter"
    /\ ~isFull(Heap, Top.sudoku.squares)
    /\ stack' = [stack EXCEPT ![Len(stack)] =
                    [@ EXCEPT !.square = getEmptySquare(Heap, Top.sudoku.squares),
                              !.i = 0, !.phase = "loop"]]
    /\ UNCHANGED <<pc, fields, message, squares, sq, arr, nextRef, newSquares, ij,
                   result, initial, ud>>

\* line 70: i < square.domain.length
MoreValues(f) == f.i < Len(arr[sq[f.square].domain])

\* lines 73-85: the copy of the board of the activation f with the value
\* number f.i of the square's domain in the square, and the call of
\* updateDomains for it
Trial(f) ==
    Then(copySquares(Heap, f.sudoku.squares), LAMBDA cp :
    Then(Assign(cp.heap, cp.squares, sq[f.square].row, sq[f.square].col,
                Candidate(arr[sq[f.square].domain], f.i)), LAMBDA H1 :
    Then(updateDomains(H1, cp.squares, sq[f.square].row, sq[f.square].col), LAMBDA r :
        [newSquares |-> cp.squares, heap |-> r.heap, success |-> r.ret,
         ud |-> Call(H1, cp.squares, sq[f.square].row, sq[f.square].col, r)])))

\* lines 70-92: a round of the loop in which updateDomains returns true,
\* up to the recursive call
BacktrackDescend ==
    /\ pc = "search"
    /\ stack # <<>>
    /\ Top.phase = "loop"
    /\ MoreValues(Top)
    /\ \E t \in {Trial(Top)} :
       \E c \in {SudokuCSP(t.heap, t.newSquares, FALSE)} :
       \E st \in {Append([stack EXCEPT ![Len(stack)].phase = "wait"], Frame(c.csp))} :
       \E H \in {Collect(c.heap, Roots(<<>>, st, <<>>))} :
        /\ t.success
        /\ ud' = t.ud
        /\ stack' = st
        /\ sq' = H.sq
        /\ arr' = H.arr
        /\ nextRef' = H.next
    /\ UNCHANGED <<pc, fields, message, squares, newSquares, ij, result, initial>>

\* lines 70-89 and the i++: a round of the loop in which updateDomains
\* returns false
BacktrackSkip ==
    /\ pc = "search"
    /\ stack # <<>>
    /\ Top.phase = "loop"
    /\ MoreValues(Top)
    /\ \E t \in {Trial(Top)} :
       \E st \in {[stack EXCEPT ![Len(stack)].i = @ + 1]} :
       \E H \in {Collect(t.heap, Roots(<<>>, st, <<>>))} :
        /\ ~t.success
        /\ ud' = t.ud
        /\ stack' = st
        /\ sq' = H.sq
        /\ arr' = H.arr
        /\ nextRef' = H.next
    /\ UNCHANGED <<pc, fields, message, squares, newSquares, ij, result, initial>>

\* line 104: no value of the domain is left
BacktrackFail ==
    /\ pc = "search"
    /\ stack # <<>>
    /\ Top.phase = "loop"
    /\ ~MoreValues(Top)
    /\ \E c \in {SudokuCSP(Heap, Top.sudoku.squares, TRUE)} :
       \E H \in {Collect(c.heap, Roots(<<>>, Pop, << c.csp >>))} :
        /\ result' = << c.csp >>
        /\ sq' = H.sq
        /\ arr' = H.arr
        /\ nextRef' = H.next
    /\ stack' = Pop
    /\ UNCHANGED <<pc, fields, message, squares, newSquares, ij, initial, ud>>

\* lines 96-98: the recursive call returned a solution, which is returned
BacktrackPass ==
    /\ pc = "search"
    /\ stack # <<>>
    /\ Top.phase = "wait"
    /\ result # <<>>
    /\ ~result[1].failure
    /\ \E H \in {Collect(Heap, Roots(<<>>, Pop, result))} :
        /\ sq' = H.sq
        /\ arr' = H.arr
        /\ nextRef' = H.next
    /\ stack' = Pop
    /\ UNCHANGED <<pc, fields, message, squares, newSquares, ij, result, initial, ud>>

\* lines 96-100: the recursive call returned a failure; i++
BacktrackNext ==
    /\ pc = "search"
    /\ stack # <<>>
    /\ Top.phase = "wait"
    /\ result # <<>>
    /\ result[1].failure
    /\ \E st \in {[stack EXCEPT ![Len(stack)] = [@ EXCEPT !.i = @ + 1, !.phase = "loop"]]} :
       \E H \in {Collect(Heap, Roots(<<>>, st, <<>>))} :
        /\ stack' = st
        /\ sq' = H.sq
        /\ arr' = H.arr
        /\ nextRef' = H.next
    /\ result' = <<>>
    /\ UNCHANGED <<pc, fields, message, squares, newSquares, ij, initial, ud>>

\* solve has returned: lines 70-89 of controller.js
SolveReturn ==
    /\ pc = "search"
    /\ stack = <<>>
    /\ result # <<>>
    /\ pc' = "done"
    /\ IF ~result[1].failure
       THEN /\ fields' = [i \in Idx |-> [j \in Idx |->
                             toString(sq[result[1].squares[i][j]].value)]]
            /\ message' = "Success!"
       ELSE /\ fields' = fields
            /\ message' = "No solution exists!"
    /\ UNCHANGED <<squares, sq, arr, nextRef, newSquares, ij, stack, result, initial, ud>>

SolverStep ==
    \/ UpdateAllStep
    \/ UpdateAllReturn
    \/ BacktrackFull
    \/ BacktrackChoose
    \/ BacktrackDescend
    \/ BacktrackSkip
    \/ BacktrackFail
    \/ BacktrackPass
    \/ BacktrackNext
    \/ SolveReturn

Next ==
    \/ SolveButtonClick
    \/ SolverStep

Spec == Init /\ [][Next]_vars

\* A click handler, once started, runs to its end.
FairSpec == Spec /\ WF_vars(SolverStep)

----------------------------------------------------------------------------
(* What the properties speak about *)

Cells == Idx \X Idx

Peer(p, q) ==
    /\ p # q
    /\ \/ p[1] = q[1]
       \/ p[2] = q[2]
       \/ (p[1] \div 3 = q[1] \div 3 /\ p[2] \div 3 = q[2] \div 3)

Units ==
    { { <<i, j>> : j \in Idx } : i \in Idx }
    \cup { { <<i, j>> : i \in Idx } : j \in Idx }
    \cup { { <<3 * a + i, 3 * b + j>> : i \in 0 .. 2, j \in 0 .. 2 } : a \in 0 .. 2, b \in 0 .. 2 }

\* every row, column and box holds each digit exactly once
ValidGrid(g) ==
    \A u \in Units : \A d \in 1 .. 9 :
        Cardinality({ c \in u : g[c[1]][c[2]] = d }) = 1

\* no two equal nonzero values in a common row, column or box
Consistent(g) ==
    \A p \in Cells : g[p[1]][p[2]] # 0 =>
        \A q \in Cells : Peer(p, q) => g[q[1]][q[2]] # g[p[1]][p[2]]

ZerosOf(g) == { c \in Cells : g[c[1]][c[2]] = 0 }

\* The grids that fill the zero cells of g from cell number k on, each
\* with a digit none of its peers holds at that moment.
RECURSIVE FillFrom(_, _)
FillFrom(g, k) ==
    IF k = N * N THEN {g}
    ELSE LET i == k \div N
             j == k % N
         IN  IF g[i][j] # 0 THEN FillFrom(g, k + 1)
             ELSE UNION { FillFrom([g EXCEPT ![i][j] = d], k + 1) :
                            d \in { e \in 1 .. 9 :
                                      \A q \in Cells : Peer(<<i, j>>, q) => g[q[1]][q[2]] # e } }

\* the valid grids that agree with g on its nonzero cells
Completions(g) == { h \in FillFrom(g, 0) : ValidGrid(h) }

\* g comes before h when the cells are read row by row
LexLess(g, h) ==
    \E k \in 0 .. (N * N - 1) :
        /\ g[k \div N][k % N] < h[k \div N][k % N]
        /\ \A m \in 0 .. (k - 1) : g[m \div N][m % N] = h[m \div N][m % N]

Least(S) == CHOOSE g \in S : \A h \in S : h = g \/ LexLess(g, h)

Returned == pc = "done"

Solved == Returned /\ ~result[1].failure

ReturnedGrid == Values(Heap, result[1].squares)

\* the boards of the activations of backtrack and the board returned
SearchBoards ==
    { stack[k].sudoku.squares : k \in DOMAIN stack }
    \cup { result[k].squares : k \in DOMAIN result }

Collapsed(board) ==
    \A c \in Cells :
        LET s == sq[board[c[1]][c[2]]]
        IN  s.value # 0 => arr[s.domain] = << s.value >>

NonZeroCount(g) == Cardinality(Cells \ ZerosOf(g))

\* the cell of the last call of updateDomains, its value, and the domains
\* before and after the call
UdCell == << ud[1].row, ud[1].col >>
UdValue == ud[1].pre[ud[1].row][ud[1].col].value
PreDomain(c) == ud[1].pre[c[1]][c[2]].domain
PostDomain(c) == ud[1].post[c[1]][c[2]].domain
Has(s, v) == \E k \in 1 .. Len(s) : s[k] = v

----------------------------------------------------------------------------
(* The properties *)

\* C1: when solve returns failure = false, every row, every column and
\* every 3x3 box of the returned grid holds each digit 1..9 exactly once.
C1_ReturnedGridValid == Solved => ValidGrid(ReturnedGrid)

\* C2: when the initial grid has a valid completion, solve returns
\* failure = false and the returned grid is one of the valid completions
\* (so a solved grid with one cell blanked gets its value back).
C2_CompletableSolved ==
    (Returned /\ Completions(initial[1]) # {}) =>
        (~result[1].failure /\ ReturnedGrid \in Completions(initial[1]))

\* a solved grid with exactly one cell blanked was solved
C2_Witness ==
    /\ Solved
    /\ Cardinality(ZerosOf(initial[1])) = 1
    /\ Completions(initial[1]) # {}

\* C3: when the initial grid has two equal nonzero values in a common row,
\* column or box, solve returns failure = true.
C3_DuplicateFails == (Returned /\ ~Consistent(initial[1])) => result[1].failure

\* C4: when solve returns failure = false, every cell that was nonzero in
\* the initial grid holds the same value in the returned grid, and the
\* square an activation of backtrack has chosen holds 0 in its board.
C4_GivensKept ==
    /\ Solved => \A c \in Cells :
                    initial[1][c[1]][c[2]] # 0 =>
                        ReturnedGrid[c[1]][c[2]] = initial[1][c[1]][c[2]]
    /\ \A k \in DOMAIN stack :
          stack[k].phase # "enter" =>
              /\ stack[k].square \in Refs(stack[k].sudoku.squares)
              /\ sq[stack[k].square].value = 0

\* solved, from a grid with givens and with blanks
C4_Witness ==
    /\ Solved
    /\ Cardinality(ZerosOf(initial[1])) >= 2
    /\ NonZeroCount(initial[1]) >= 2

\* C5 as stated: after updateDomains on a cell holding v # 0, with either
\* result, the cell's domain is [v] and no peer has v in its domain.
C5_PrunedEitherResult ==
    (ud # <<>> /\ UdValue # 0) =>
        /\ PostDomain(UdCell) = << UdValue >>
        /\ \A q \in Cells : Peer(UdCell, q) => ~Has(PostDomain(q), UdValue)

\* C5 amended: after updateDomains on a cell holding v # 0 the cell's
\* domain is [v] with either result, and when it returned true no peer
\* has v in its domain.
C5_PrunedWhenTrue ==
    (ud # <<>> /\ UdValue # 0) =>
        /\ PostDomain(UdCell) = << UdValue >>
        /\ ud[1].ret => \A q \in Cells : Peer(UdCell, q) => ~Has(PostDomain(q), UdValue)

\* a call that returned true and took the value out of a row peer, a
\* column peer and a box peer
C5_Witness ==
    /\ ud # <<>>
    /\ UdValue # 0
    /\ ud[1].ret
    /\ \E q \in Cells : q[1] = UdCell[1] /\ Peer(UdCell, q) /\ Has(PreDomain(q), UdValue)
    /\ \E q \in Cells : q[2] = UdCell[2] /\ Peer(UdCell, q) /\ Has(PreDomain(q), UdValue)
    /\ \E q \in Cells : q[1] # UdCell[1] /\ q[2] # UdCell[2] /\ Peer(UdCell, q)
                          /\ Has(PreDomain(q), UdValue)

\* C6: no step of solve changes the values or domains of the caller's
\* board, and no step changes the board of an activation of backtrack
\* that is still on the stack.
C6_NoForeignChange ==
    [][ /\ pc # "idle" => Content(Heap, squares)' = Content(Heap, squares)
        /\ \A k \in DOMAIN stack :
              (k \in DOMAIN stack' /\ stack'[k].sudoku = stack[k].sudoku) =>
                  Content(Heap, stack[k].sudoku.squares)'
                      = Content(Heap, stack[k].sudoku.squares) ]_vars

\* an activation that has gone through two candidates, with another
\* activation below it that has gone through one
C6_Witness ==
    /\ pc = "search"
    /\ \E k \in DOMAIN stack : \E m \in DOMAIN stack :
          k < m /\ stack[k].i >= 2 /\ stack[m].i >= 1

\* C7: in every board backtrack receives and in every board solve
\* returns, each cell with value # 0 has the domain [value].
C7_AssignedSingleton == \A b \in SearchBoards : Collapsed(b)

\* the domain a propagator without short-circuit leaves in cell q
RefDomain(q) ==
    IF q = UdCell THEN << UdValue >>
    ELSE SelectSeq(PreDomain(q), LAMBDA x : x # UdValue)

\* C8: on a cell with a nonzero value updateDomains returns true exactly
\* when every cell of the row, the column and the box of the cell has a
\* non-empty domain after the value is taken out of all the peers; on a
\* cell with value 0 it returns true and changes nothing.
C8_SameAsReference ==
    ud # <<>> =>
        IF UdValue = 0
        THEN ud[1].ret /\ ud[1].post = ud[1].pre
        ELSE ud[1].ret <=>
                \A q \in Cells : (q = UdCell \/ Peer(UdCell, q)) => RefDomain(q) # <<>>

\* a call that returned false although no cell of the row of the assigned
\* cell is left with an empty domain
C8_Witness ==
    /\ ud # <<>>
    /\ UdValue # 0
    /\ ~ud[1].ret
    /\ \A q \in Cells : q[1] = UdCell[1] => RefDomain(q) # <<>>

\* the k-th activation works on a board with k - 1 more nonzero cells
\* than the initial grid, and there are never more activations below the
\* first than the initial grid has zero cells
DepthBounded ==
    /\ \A k \in DOMAIN stack :
          NonZeroCount(Values(Heap, stack[k].sudoku.squares))
              = NonZeroCount(initial[1]) + (k - 1)
    /\ stack # <<>> => Len(stack) - 1 <= Cardinality(ZerosOf(initial[1]))

\* C9: solve returns for every initial grid; each recursive call of
\* backtrack gets a board with exactly one more nonzero cell than its
\* caller's board, so the depth of the recursion never exceeds the number
\* of zero cells of the initial grid.
C9_Terminates == []DepthBounded /\ ((pc = "init") ~> Returned)

\* the recursion is as deep as the initial grid has zero cells
C9_Witness ==
    /\ stack # <<>>
    /\ Cardinality(ZerosOf(initial[1])) >= 3
    /\ Len(stack) - 1 = Cardinality(ZerosOf(initial[1]))

\* C10: when the initial grid has no two equal nonzero values in a common
\* row, column or box and solve returns failure = false, the returned
\* grid is the least valid completion of the initial grid in the
\* row-major lexicographic order.
C10_LeastCompletion ==
    (Solved /\ Consistent(initial[1])) =>
        /\ Completions(initial[1]) # {}
        /\ ReturnedGrid = Least(Completions(initial[1]))

\* solved a grid with several valid completions after a failed branch
C10_Witness ==
    /\ Solved
    /\ Consistent(initial[1])
    /\ Cardinality(Completions(initial[1])) >= 2

====
